---- MODULE Spec2Model ----
(***************************************************************************)
(* The retry/backoff loop of simulate_capacity_reservation                 *)
(* (src/test_capacity_reservation.py).                                     *)
(*                                                                         *)
(* Time is counted in ticks of 0.1 s, the length of the loop's sleep, so   *)
(* that the sleep, the whole-second intervals and the minute budget are    *)
(* all whole numbers.  The clock is read where the code reads it: at the   *)
(* loop test, after a successful call and in the ClientError handler.      *)
(* The only statements that take time are the client call (its latency is  *)
(* an input of each attempt) and time.sleep.                               *)
(*                                                                         *)
(* The client call has three outcomes.  "Success" is a returned response.  *)
(* "RetryableFailure" is a ClientError with the code                       *)
(* InsufficientInstanceCapacity and "FatalFailure" a ClientError with any  *)
(* other code: the handler `except ClientError` never looks at the code,   *)
(* so it treats both in the same way.                                      *)
(*                                                                         *)
(* The second part is find_matching_logins with the functions it rests on  *)
(* (src/login_matcher.py), under the specification MatcherSpec.  A text is *)
(* the sequence of its characters, so that lower, strip, the slices and    *)
(* the indexing of generate_login_permutations are computed as the code    *)
(* computes them.                                                          *)
(***************************************************************************)
EXTENDS Integers, Sequences, FiniteSets, TLC

\* ---------------------------------------------------------------- bounds
MaxMinutes == 1
MaxBackoff == 2
MaxLatency == 600
MaxRows == 2

\* ------------------------------------------------------ program constants
SecondsPerMinute == 60
TicksPerSecond == 10
SleepTicks == 1
InitialAttempt == 1
RequestedCount == 1

\* ------------------------------------------------------------ the inputs
Minutes == -1..MaxMinutes
InitialIntervals == {0, 5, 20, 90}
MaxIntervals == {20, 300}
Backoffs == 1..MaxBackoff
Latencies == {0, (2 * MaxLatency) \div 3, MaxLatency}

\* no run of the loop gets this far: each turn of the loop sleeps SleepTicks
\* and the budget is at most MaxMinutes
AttemptCap == MaxMinutes * SecondsPerMinute * TicksPerSecond + 2

InstanceTypes == {"m5.xlarge"}
Platforms == {"Linux/UNIX"}
AvailabilityZones == {"us-east-1a"}
Tenancies == {"default"}

Failures == {"RetryableFailure", "FatalFailure"}
Outcomes == {"Success"} \cup Failures

Absent == "absent"
NoOutcome == "none"

VARIABLES
  params,            \* the params dict: the four policy fields, as integers,
                     \* and the four request fields
  numeric,           \* the four policy fields of params are texts of numbers
  cancelled,         \* the caller has signalled cancellation during a wait
  now,               \* the wall clock, in ticks
  start_time,        \* start_time (line 64)
  current_interval,  \* current_interval, in seconds
  attempt,           \* attempt
  pc,                \* where the function is: "convert", "loop", "call",
                     \* "wait", "done" (returned), "raised" (an exception
                     \* left the function)
  calls,             \* history: calls of create_capacity_reservation made
  waits,             \* history: calls of time.sleep made
  lastOutcome,       \* history: outcome of the latest client call
  lastLatency,       \* history: time the latest client call took, in ticks
  sawFatal,          \* history: some client call ended in a FatalFailure
  firstSent,         \* history: keyword arguments of the first client call
  sent,              \* history: keyword arguments of the latest client call
  result             \* the returned dict, NoResult until the function returns

\* the state of find_matching_logins and of the reading of its names
\* (src/login_matcher.py)
VARIABLES
  csv_file,          \* the rows of the names file, each a sequence of cells
  existing_logins,   \* the dict of login id -> row of the logins file
  names_list,        \* the list read_names_from_csv returns
  idx,               \* position of the for loop of line 56 in names_list
  matches,           \* matches (line 52)
  matched_logins,    \* matched_logins (line 54)
  non_matches,       \* non_matches (lines 69-73)
  mpc                \* "read", "loop", "returned", or "raised" (an
                     \* IndexError left generate_login_permutations)

retryVars == <<params, numeric, cancelled, now, start_time, current_interval, attempt, pc,
               calls, waits, lastOutcome, lastLatency, sawFatal, firstSent, sent, result>>

matcherVars == <<csv_file, existing_logins, names_list, idx, matches, matched_logins,
                 non_matches, mpc>>

vars == <<retryVars, matcherVars>>

\* ------------------------------------------------- parameter conversion
max_duration == params.MaxRetryDurationMinutes * SecondsPerMinute
initial_interval == params.InitialRetryIntervalSeconds
max_interval == params.MaxRetryIntervalSeconds
backoff == params.BackoffMultiplier

Min(a, b) == IF a <= b THEN a ELSE b

\* (datetime.now() - start_time).total_seconds(), in ticks
Elapsed(t) == t - start_time

\* int(seconds) of an elapsed time given in ticks (never negative here)
IntSeconds(ticks) == ticks \div TicksPerSecond

\* the loop test of line 69
LoopConditionUpTo(t) == Elapsed(t) <= max_duration * TicksPerSecond
LoopCondition(t) == Elapsed(t) < max_duration * TicksPerSecond

\* remaining = max_duration - elapsed, in ticks
Remaining(t) == max_duration * TicksPerSecond - Elapsed(t)

\* the test of line 129: remaining < current_interval
ShortCircuitUpTo(remaining, interval) == remaining <= interval * TicksPerSecond
ShortCircuitPastDeadline(remaining, interval) == remaining < 0
ShortCircuit(remaining, interval) == remaining < interval * TicksPerSecond

\* line 143
NextIntervalUnclamped(interval) == interval * backoff
NextInterval(interval) == Min(interval * backoff, max_interval)

\* line 144
NextAttemptStuck(a) == a
NextAttempt(a) == a + 1

\* line 140: time.sleep(0.1)
SleepNothing == 0 * SleepTicks
SleepWholeInterval == current_interval * TicksPerSecond
SleepFor == SleepTicks

\* ------------------------------------------- arguments of the client call
NoArgs ==
  [InstanceType |-> Absent, InstancePlatform |-> Absent,
   AvailabilityZone |-> Absent, InstanceCount |-> 0 * RequestedCount,
   InstanceMatchCriteria |-> Absent, Tenancy |-> Absent,
   EndDateType |-> Absent]

\* lines 104-112: the keyword arguments of attempt a, read from the dict p
CallArgsGrowing(p, a) ==
  [InstanceType |-> p.InstanceType, InstancePlatform |-> p.Platform,
   AvailabilityZone |-> p.AvailabilityZone, InstanceCount |-> a,
   InstanceMatchCriteria |-> "targeted", Tenancy |-> p.Tenancy,
   EndDateType |-> "unlimited"]
CallArgs(p, a) ==
  [InstanceType |-> p.InstanceType, InstancePlatform |-> p.Platform,
   AvailabilityZone |-> p.AvailabilityZone, InstanceCount |-> RequestedCount,
   InstanceMatchCriteria |-> "targeted", Tenancy |-> p.Tenancy,
   EndDateType |-> "unlimited"]

\* ------------------------------------------------------ returned dicts
\* a key the dict does not have is Absent; nothing is returned before "done"
NoResult ==
  [success |-> FALSE, capacityReservationId |-> Absent, error |-> Absent,
   attempts |-> 0, totalDuration |-> 0, finalInterval |-> 0]

SuccessResult(a, t, interval) ==
  [success |-> TRUE, capacityReservationId |-> "cr-test-123456789",
   error |-> Absent, attempts |-> a,
   totalDuration |-> IntSeconds(Elapsed(t)), finalInterval |-> interval]

InsufficientResultWithId(a, t, interval) ==
  [success |-> FALSE, capacityReservationId |-> "cr-test-123456789",
   error |-> "InsufficientCapacity", attempts |-> a,
   totalDuration |-> IntSeconds(Elapsed(t)), finalInterval |-> interval]
InsufficientResult(a, t, interval) ==
  [success |-> FALSE, capacityReservationId |-> Absent,
   error |-> "InsufficientCapacity", attempts |-> a,
   totalDuration |-> IntSeconds(Elapsed(t)), finalInterval |-> interval]

ExceededResult(a, interval) ==
  [success |-> FALSE, capacityReservationId |-> Absent,
   error |-> "ExceededMaxDuration", attempts |-> a,
   totalDuration |-> max_duration, finalInterval |-> interval]

\* ============================================== src/login_matcher.py
\* A text is the sequence of its characters.
\* ------------------------------------------------------ str operations
\* str.lower, on the letters the names are made of
LowerChar(c) ==
  CASE c = "A" -> "a"
    [] c = "B" -> "b"
    [] OTHER -> c

Lower(s) == [i \in DOMAIN s |-> LowerChar(s[i])]

Whitespace == {" "}

RECURSIVE StripLeft(_)
StripLeft(s) ==
  IF s # <<>> /\ Head(s) \in Whitespace THEN StripLeft(Tail(s)) ELSE s

RECURSIVE StripRight(_)
StripRight(s) ==
  IF s # <<>> /\ s[Len(s)] \in Whitespace
    THEN StripRight(SubSeq(s, 1, Len(s) - 1))
    ELSE s

\* str.strip
Strip(s) == StripRight(StripLeft(s))

\* the slice s[:n]
Take(s, n) == SubSeq(s, 1, Min(n, Len(s)))

\* s[0] and s[-1] of a text that has them
FirstChar(s) == <<s[1]>>
LastChar(s) == <<s[Len(s)]>>

DecimalDigits == <<"0", "1", "2", "3", "4", "5", "6", "7", "8", "9">>

\* str(n), n >= 0
RECURSIVE Str(_)
Str(n) ==
  IF n < Len(DecimalDigits)
    THEN <<DecimalDigits[n + 1]>>
    ELSE Str(n \div Len(DecimalDigits))
           \o <<DecimalDigits[(n % Len(DecimalDigits)) + 1]>>

\* list(dict.fromkeys(l)): the first occurrence of each element, in order
RECURSIVE Dedup(_)
Dedup(l) ==
  IF l = <<>> THEN <<>>
  ELSE LET front == Dedup(SubSeq(l, 1, Len(l) - 1))
           x == l[Len(l)]
       IN IF \E i \in DOMAIN front : front[i] = x
            THEN front
            ELSE Append(front, x)

\* ---------------------------------------- generate_login_permutations
\* lines 8-9: name.lower().strip()
Normalised(name) == Strip(Lower(name))

\* lines 14-32: first[0], last[0], first[-1] and last[-1] raise IndexError
\* on an empty text
IndexRaises(first_name, last_name) ==
  \/ Normalised(first_name) = <<>>
  \/ Normalised(last_name) = <<>>

\* lines 11-37, for names on which no index raises
generate_login_permutations(first_name, last_name) ==
  LET first == Normalised(first_name)
      last == Normalised(last_name)
      dot == <<".">>
      underscore == <<"_">>
  IN Dedup(<<
       first \o last,
       first \o dot \o last,
       FirstChar(first) \o last,
       first \o FirstChar(last),
       Take(first, 3) \o Take(last, 3),
       last \o first,
       last \o dot \o first,
       last \o FirstChar(first),
       first \o Str(Len(last)),
       FirstChar(first) \o dot \o last,
       Take(first, 3) \o dot \o Take(last, 3),
       first \o underscore \o last,
       last \o underscore \o first,
       FirstChar(first) \o underscore \o last,
       Take(first, 2) \o Take(last, 3),
       Take(first, 4) \o Take(last, 2),
       first \o Take(last, 4),
       Take(last, 4) \o Take(first, 4),
       FirstChar(first) \o Take(last, 4),
       Take(first, 4) \o FirstChar(last),
       FirstChar(first) \o LastChar(first) \o FirstChar(last) \o LastChar(last),
       Take(first, 2) \o Take(last, 2)
     >>)

\* ------------------------------------------------- read_names_from_csv
\* lines 83-87, for the rows after the header
RECURSIVE NamesOfRows(_)
NamesOfRows(rows) ==
  IF rows = <<>> THEN <<>>
  ELSE LET row == Head(rows)
       IN IF Len(row) >= 2
            THEN <<<<Strip(row[1]), Strip(row[2])>>>> \o NamesOfRows(Tail(rows))
            ELSE NamesOfRows(Tail(rows))

\* lines 79-88: next(reader, None) drops the first row, if there is one
read_names_from_csv(file) ==
  IF file = <<>> THEN <<>> ELSE NamesOfRows(Tail(file))

\* ------------------------------------------------ find_matching_logins
\* lines 58-61
FoundMatches(possible_logins, logins) ==
  SelectSeq(possible_logins, LAMBDA login : login \in DOMAIN logins)

\* lines 63-65
MatchData(found_matches, logins) ==
  [i \in DOMAIN found_matches |-> logins[found_matches[i]]]

\* lines 63-65: matches[(first_name, last_name)] = data
PutMatch(m, key, data) ==
  [k \in DOMAIN m \cup {key} |-> IF k = key THEN data ELSE m[k]]

\* the elements of a list
Elements(l) == {l[i] : i \in DOMAIN l}

\* lines 69-73
NonMatches(logins, matched) ==
  [login \in DOMAIN logins \ matched |-> logins[login]]

\* ------------------------------------------------------ matcher inputs
SeqsUpTo(S, n) == UNION {[1..k -> S] : k \in 0..n}

\* cells of the names file: "", " ", "Al", " al ", "Bo"
Cells ==
  {<<>>, <<" ">>, <<"A", "l">>, <<" ", "a", "l", " ">>, <<"B", "o">>}

HeaderRow == <<<<"F">>, <<"L">>>>

\* rows of one cell (line 85 skips them) and rows of two cells
Rows == {<<<<"A", "l">>>>} \cup {<<c1, c2>> : c1 \in Cells, c2 \in Cells}

CsvFiles == {<<>>} \cup {<<HeaderRow>> \o rows : rows \in SeqsUpTo(Rows, MaxRows)}

\* login ids of the logins file: "albo", "al2", "boal", "zed"
LoginIds ==
  {<<"a", "l", "b", "o">>, <<"a", "l", "2">>, <<"b", "o", "a", "l">>,
   <<"z", "e", "d">>}

\* the row csv.DictReader gives for a login id
LoginRow(login) == [LoginID |-> login, Department |-> "it"]

LoginDicts == {[login \in ids |-> LoginRow(login)] : ids \in SUBSET LoginIds}

\* the matcher before it is called
MatcherIdle ==
  /\ csv_file = <<>>
  /\ existing_logins = <<>>
  /\ names_list = <<>>
  /\ idx = 1
  /\ matches = <<>>
  /\ matched_logins = {}
  /\ non_matches = <<>>
  /\ mpc = "read"

\* ---------------------------------------------------------------- Init
Init ==
  /\ params \in [MaxRetryDurationMinutes : Minutes,
                 InitialRetryIntervalSeconds : InitialIntervals,
                 MaxRetryIntervalSeconds : MaxIntervals,
                 BackoffMultiplier : Backoffs,
                 InstanceType : InstanceTypes,
                 Platform : Platforms,
                 AvailabilityZone : AvailabilityZones,
                 Tenancy : Tenancies]
  /\ numeric \in BOOLEAN
  /\ cancelled = FALSE
  /\ now = 0
  /\ start_time = now
  /\ current_interval = initial_interval
  /\ attempt = InitialAttempt
  /\ pc = "convert"
  /\ calls = 0
  /\ waits = 0
  /\ lastOutcome = NoOutcome
  /\ lastLatency = 0
  /\ sawFatal = FALSE
  /\ firstSent = NoArgs
  /\ sent = NoArgs
  /\ result = NoResult
  /\ MatcherIdle

\* ------------------------------------------------------------- actions
\* lines 26-66: int() and float() accept the four texts; the session starts
Convert ==
  /\ pc = "convert"
  /\ numeric
  /\ pc' = "loop"
  /\ UNCHANGED <<params, numeric, cancelled, now, start_time, current_interval, attempt,
                 calls, waits, lastOutcome, lastLatency, sawFatal, result, firstSent,
                 sent>>
  /\ UNCHANGED matcherVars

\* lines 26-30: int() or float() raises ValueError, which nothing catches
ConvertRaises ==
  /\ pc = "convert"
  /\ ~numeric
  /\ pc' = "raised"
  /\ UNCHANGED <<params, numeric, cancelled, now, start_time, current_interval, attempt,
                 calls, waits, lastOutcome, lastLatency, sawFatal, result, firstSent,
                 sent>>
  /\ UNCHANGED matcherVars

\* line 69, test true: the stub is armed and the call is about to be made
LoopEnter ==
  /\ pc = "loop"
  /\ LoopCondition(now)
  /\ attempt < AttemptCap
  /\ pc' = "call"
  /\ UNCHANGED <<params, numeric, cancelled, now, start_time, current_interval, attempt, calls,
                 waits, lastOutcome, lastLatency, sawFatal, result, firstSent,
                 sent>>
  /\ UNCHANGED matcherVars

\* line 69, test false: lines 146-153
LoopExit ==
  /\ pc = "loop"
  /\ ~LoopCondition(now)
  /\ result' = ExceededResult(attempt, current_interval)
  /\ pc' = "done"
  /\ UNCHANGED <<params, numeric, cancelled, now, start_time, current_interval, attempt, calls,
                 waits, lastOutcome, lastLatency, sawFatal, firstSent,
                 sent>>
  /\ UNCHANGED matcherVars

\* lines 102-122: the call returns a response
AttemptSuccess ==
  /\ pc = "call"
  /\ \E latency \in Latencies :
       /\ now' = now + latency
       /\ lastLatency' = latency
       /\ result' = SuccessResult(attempt, now + latency, current_interval)
  /\ calls' = calls + 1
  /\ sent' = CallArgs(params, attempt)
  /\ firstSent' = IF calls = 0 THEN CallArgs(params, attempt) ELSE firstSent
  /\ lastOutcome' = "Success"
  /\ pc' = "done"
  /\ UNCHANGED <<params, numeric, cancelled, start_time, current_interval, attempt, waits,
                 sawFatal>>
  /\ UNCHANGED matcherVars

\* lines 102-112 and 124-136: the call raises ClientError, too little is left
AttemptFailReturn ==
  /\ pc = "call"
  /\ \E latency \in Latencies, outcome \in Failures :
       /\ ShortCircuit(Remaining(now + latency), current_interval)
       /\ now' = now + latency
       /\ lastLatency' = latency
       /\ lastOutcome' = outcome
       /\ sawFatal' = (sawFatal \/ outcome = "FatalFailure")
       /\ result' = InsufficientResult(attempt, now + latency,
                                       current_interval)
  /\ calls' = calls + 1
  /\ sent' = CallArgs(params, attempt)
  /\ firstSent' = IF calls = 0 THEN CallArgs(params, attempt) ELSE firstSent
  /\ pc' = "done"
  /\ UNCHANGED <<params, numeric, cancelled, start_time, current_interval, attempt, waits>>
  /\ UNCHANGED matcherVars

\* lines 102-112 and 124-129: the call raises ClientError, enough is left
AttemptFailContinue ==
  /\ pc = "call"
  /\ \E latency \in Latencies, outcome \in Failures :
       /\ ~ShortCircuit(Remaining(now + latency), current_interval)
       /\ now' = now + latency
       /\ lastLatency' = latency
       /\ lastOutcome' = outcome
       /\ sawFatal' = (sawFatal \/ outcome = "FatalFailure")
  /\ calls' = calls + 1
  /\ sent' = CallArgs(params, attempt)
  /\ firstSent' = IF calls = 0 THEN CallArgs(params, attempt) ELSE firstSent
  /\ pc' = "wait"
  /\ UNCHANGED <<params, numeric, cancelled, start_time, current_interval, attempt, waits,
                 result>>
  /\ UNCHANGED matcherVars

\* lines 138-144: the sleep, then the interval and the attempt number
Wait ==
  /\ pc = "wait"
  /\ now' = now + SleepFor
  /\ waits' = waits + 1
  /\ current_interval' = NextInterval(current_interval)
  /\ attempt' = NextAttempt(attempt)
  /\ pc' = "loop"
  /\ UNCHANGED <<params, numeric, cancelled, start_time, calls, lastOutcome, lastLatency,
                 sawFatal, result, firstSent,
                 sent>>
  /\ UNCHANGED matcherVars

\* line 140: the caller signals cancellation while the function sleeps; the
\* function takes no such signal and time.sleep does not look for one
Cancel ==
  /\ pc = "wait"
  /\ ~cancelled
  /\ cancelled' = TRUE
  /\ UNCHANGED <<params, numeric, now, start_time, current_interval, attempt,
                 pc, calls, waits, lastOutcome, lastLatency, sawFatal,
                 result, firstSent,
                 sent>>
  /\ UNCHANGED matcherVars

Next ==
  \/ Convert
  \/ ConvertRaises
  \/ LoopEnter
  \/ LoopExit
  \/ AttemptSuccess
  \/ AttemptFailReturn
  \/ AttemptFailContinue
  \/ Wait

Spec == Init /\ [][Next]_vars

\* the function together with a caller that may signal cancellation
CancelNext ==
  \/ Next
  \/ Cancel

CancelSpec == Init /\ [][CancelNext]_vars

\* the function is one sequential thread: it keeps running until it returns
FairSpec == Spec /\ WF_vars(Next)

\* ===================================== the matcher as a state machine
\* the retry loop, not called
RetryIdle ==
  /\ params = [MaxRetryDurationMinutes |-> MaxMinutes,
               InitialRetryIntervalSeconds |-> CHOOSE i \in InitialIntervals : TRUE,
               MaxRetryIntervalSeconds |-> CHOOSE i \in MaxIntervals : TRUE,
               BackoffMultiplier |-> MaxBackoff,
               InstanceType |-> CHOOSE t \in InstanceTypes : TRUE,
               Platform |-> CHOOSE t \in Platforms : TRUE,
               AvailabilityZone |-> CHOOSE t \in AvailabilityZones : TRUE,
               Tenancy |-> CHOOSE t \in Tenancies : TRUE]
  /\ numeric = TRUE
  /\ cancelled = FALSE
  /\ now = 0
  /\ start_time = now
  /\ current_interval = initial_interval
  /\ attempt = InitialAttempt
  /\ pc = "convert"
  /\ calls = 0
  /\ waits = 0
  /\ lastOutcome = NoOutcome
  /\ lastLatency = 0
  /\ sawFatal = FALSE
  /\ firstSent = NoArgs
  /\ sent = NoArgs
  /\ result = NoResult

\* main, lines 127-128: the two files as they are on disk
MatcherInit ==
  /\ RetryIdle
  /\ csv_file \in CsvFiles
  /\ existing_logins \in LoginDicts
  /\ names_list = <<>>
  /\ idx = 1
  /\ matches = <<>>
  /\ matched_logins = {}
  /\ non_matches = <<>>
  /\ mpc = "read"

\* lines 77-88 and 52-54: the names are read, find_matching_logins starts
ReadNames ==
  /\ mpc = "read"
  /\ names_list' = read_names_from_csv(csv_file)
  /\ idx' = 1
  /\ matches' = <<>>
  /\ matched_logins' = {}
  /\ mpc' = "loop"
  /\ UNCHANGED <<csv_file, existing_logins, non_matches>>
  /\ UNCHANGED retryVars

\* lines 56-66: one round of the for loop, the permutations are generated
MatchName ==
  /\ mpc = "loop"
  /\ idx <= Len(names_list)
  /\ LET first_name == names_list[idx][1]
         last_name == names_list[idx][2]
     IN /\ ~IndexRaises(first_name, last_name)
        /\ LET possible_logins == generate_login_permutations(first_name, last_name)
               found_matches == FoundMatches(possible_logins, existing_logins)
           IN IF found_matches # <<>>
                THEN /\ matches' = PutMatch(matches, <<first_name, last_name>>,
                                            MatchData(found_matches, existing_logins))
                     /\ matched_logins' = matched_logins \cup Elements(found_matches)
                ELSE UNCHANGED <<matches, matched_logins>>
  /\ idx' = idx + 1
  /\ UNCHANGED <<csv_file, existing_logins, names_list, non_matches, mpc>>
  /\ UNCHANGED retryVars

\* lines 56-57: generate_login_permutations raises IndexError (lines 14-32),
\* which nothing catches
PermutationsRaise ==
  /\ mpc = "loop"
  /\ idx <= Len(names_list)
  /\ IndexRaises(names_list[idx][1], names_list[idx][2])
  /\ mpc' = "raised"
  /\ UNCHANGED <<csv_file, existing_logins, names_list, idx, matches, matched_logins,
                 non_matches>>
  /\ UNCHANGED retryVars

\* lines 68-75: the loop is over, non_matches is computed and returned
MatchReturn ==
  /\ mpc = "loop"
  /\ idx > Len(names_list)
  /\ non_matches' = NonMatches(existing_logins, matched_logins)
  /\ mpc' = "returned"
  /\ UNCHANGED <<csv_file, existing_logins, names_list, idx, matches, matched_logins>>
  /\ UNCHANGED retryVars

MatcherNext ==
  \/ ReadNames
  \/ MatchName
  \/ PermutationsRaise
  \/ MatchReturn

MatcherSpec == MatcherInit /\ [][MatcherNext]_vars

\* ---------------------------------------------------------- vocabulary
Done == pc = "done"

\* the policy is valid in the sense of the termination property
ValidPolicy ==
  /\ numeric
  /\ max_duration > 0
  /\ 0 < initial_interval
  /\ initial_interval <= max_interval

TypeOK ==
  /\ pc \in {"convert", "loop", "call", "wait", "done", "raised"}
  /\ numeric \in BOOLEAN
  /\ cancelled \in BOOLEAN
  /\ now \in Nat
  /\ attempt \in Nat
  /\ calls \in Nat
  /\ waits \in Nat
  /\ lastOutcome \in Outcomes \cup {NoOutcome}
  /\ lastLatency \in Latencies
  /\ attempt < AttemptCap
  /\ sawFatal \in BOOLEAN
  /\ (pc # "done") => result = NoResult
  /\ (pc = "done") => result.attempts = attempt

\* the budget and the interval in effect, in ticks
BudgetTicks == max_duration * TicksPerSecond
IntervalTicks == current_interval * TicksPerSecond

\* the function has just left the ClientError handler of the latest call:
\* the clock and the interval are the ones the handler saw
AfterFailure ==
  \/ pc = "wait"
  \/ (Done /\ result.error = "InsufficientCapacity")

\* ------------------------------------------------------------------ C1
\* C1: when the k-th client call of a run returns a response, the function
\* returns at once with success = True and attempts = k, whatever the
\* interval has grown to.
C1_SuccessReportsItsAttempt ==
  lastOutcome = "Success" =>
    /\ Done
    /\ result.success = TRUE
    /\ result.attempts = calls

C1_Witness ==
  /\ Done
  /\ lastOutcome = "Success"
  /\ calls = 4
  /\ result.success = TRUE
  /\ result.attempts = 4
  /\ result.finalInterval > initial_interval

\* ------------------------------------------------------------------ C2
\* C2: with a valid policy (maxDuration > 0, 0 < initialInterval <=
\* maxInterval) every run returns, whatever the client calls do, also with
\* backoff 1 and with maxInterval = initialInterval.
C2_Terminates == ValidPolicy => <>Done

C2_Witness ==
  /\ Done
  /\ ValidPolicy
  /\ backoff = 1
  /\ max_interval = initial_interval
  /\ ~sawFatal
  /\ lastOutcome = "RetryableFailure"
  /\ calls > 100

\* ------------------------------------------------------------------ C3
\* C3 as claimed, for valid policies: no call starts once the budget is
\* used up, no wait that is followed by a call ends after the deadline, and
\* a run whose calls all fail retryably ends with an elapsed time that
\* exceeds maxDuration by no more than one interval.
C3_OvershootWithinOneInterval ==
  ValidPolicy =>
    /\ (pc = "call" => Elapsed(now) < BudgetTicks)
    /\ (Done /\ ~sawFatal /\ lastOutcome = "RetryableFailure"
          => Elapsed(now) <= BudgetTicks + IntervalTicks)

\* C3 as amended, for every policy: no call starts once the budget is used
\* up, no wait that is followed by a call ends after the deadline, and the
\* function returns less than the latency of its last call plus one sleep
\* after the deadline (at once, when it makes no call at all).
C3_OvershootWithinOneLatency ==
  /\ (pc = "call" => Elapsed(now) < BudgetTicks)
  /\ (pc = "call" /\ waits > 0 => Elapsed(now) <= BudgetTicks)
  /\ (Done /\ calls = 0 => Elapsed(now) = 0)
  /\ (Done /\ calls > 0
        => Elapsed(now) < BudgetTicks + lastLatency + SleepTicks)
  /\ (Done /\ ValidPolicy => Elapsed(now) < BudgetTicks + lastLatency)

C3_Witness ==
  /\ Done
  /\ ValidPolicy
  /\ ~sawFatal
  /\ lastOutcome = "RetryableFailure"
  /\ waits > 0
  /\ Elapsed(now) > BudgetTicks + IntervalTicks

\* ------------------------------------------------------------------ C4
\* C4: a call that ends in a FatalFailure makes the function return at once
\* with success = False, the error of the call and attempts = the number of
\* calls made: no wait follows and no further call is made.
C4_FatalReturnsAtOnce ==
  lastOutcome = "FatalFailure" =>
    /\ Done
    /\ result.success = FALSE
    /\ result.error = "FatalFailure"
    /\ result.attempts = calls
    /\ waits = calls - 1

\* ------------------------------------------------------------------ C5
\* C5 as claimed, for valid policies: a retryable failure seen with
\* remaining = currentInterval makes the function return a failure with the
\* current attempt count, without going on to sleep.
C5_FailsAtEquality ==
  (ValidPolicy /\ AfterFailure /\ lastOutcome = "RetryableFailure"
     /\ BudgetTicks - Elapsed(now) = IntervalTicks)
  => (Done /\ result.success = FALSE /\ result.attempts = calls)

\* C5 as amended: the test is strict.  After a failure the function goes on
\* to sleep exactly when remaining >= currentInterval, so also at equality;
\* it returns the "insufficient capacity" failure with the current attempt
\* count, without sleeping, exactly when remaining < currentInterval.
C5_StrictComparison ==
  /\ (pc = "wait" => BudgetTicks - Elapsed(now) >= IntervalTicks)
  /\ (Done /\ result.error = "InsufficientCapacity" =>
        /\ BudgetTicks - Elapsed(now) < IntervalTicks
        /\ result.success = FALSE
        /\ result.attempts = calls
        /\ waits = calls - 1)

C5_Witness ==
  /\ pc = "wait"
  /\ ValidPolicy
  /\ lastOutcome = "RetryableFailure"
  /\ BudgetTicks - Elapsed(now) = IntervalTicks

\* ------------------------------------------------------------------ C6
\* C6: with maxDuration < initialInterval, a first call that fails
\* retryably makes the function return at once with success = False,
\* attempts = 1 and the "insufficient capacity" error, after one call and
\* no wait.
C6_ShortBudgetFailsAtOnce ==
  (max_duration < initial_interval /\ calls >= 1 /\ ~sawFatal
     /\ lastOutcome = "RetryableFailure")
  => /\ Done
     /\ result.success = FALSE
     /\ result.attempts = 1
     /\ result.error = "InsufficientCapacity"
     /\ calls = 1
     /\ waits = 0

C6_Witness ==
  /\ max_duration < initial_interval
  /\ Done
  /\ lastOutcome = "RetryableFailure"
  /\ calls = 1
  /\ waits = 0
  /\ result.attempts = 1

\* ------------------------------------------------------------------ C7
\* b^e, cut off at cap
RECURSIVE PowerUpTo(_, _, _, _)
PowerUpTo(b, e, cap, acc) ==
  IF e = 0 \/ acc >= cap \/ b = 1
  THEN Min(acc, cap)
  ELSE PowerUpTo(b, e - 1, cap, acc * b)

\* min(initialInterval * backoffMultiplier^(k-1), maxInterval); the cut-off
\* is above maxInterval and initialInterval is at least 1
ClosedFormInterval(k) ==
  Min(initial_interval * PowerUpTo(backoff, k - 1, max_interval + 1, 1),
      max_interval)

\* C7: with a valid policy the interval in effect at attempt k is
\* min(initialInterval * backoffMultiplier^(k-1), maxInterval), it never
\* exceeds maxInterval, and the finalInterval of every returned result is
\* that value for the reported attempt.
C7_IntervalIsClampedPower ==
  ValidPolicy =>
    /\ current_interval = ClosedFormInterval(attempt)
    /\ current_interval <= max_interval
    /\ (Done => result.finalInterval = ClosedFormInterval(result.attempts))

C7_Witness ==
  /\ ValidPolicy
  /\ Done
  /\ backoff = 2
  /\ result.attempts >= 5
  /\ result.finalInterval = max_interval
  /\ initial_interval * 4 = max_interval

\* ------------------------------------------------------------------ C8
\* C8: with a valid policy and calls that fail retryably, the function does
\* not give up while the waits fit: a wait that fits (remaining >=
\* currentInterval) is followed by the next call, a failure is returned only
\* after a call whose wait does not fit, and the call that succeeds is
\* reported as success with attempts = the number of calls made.
C8_NoEarlyGiveUp ==
  (ValidPolicy /\ ~sawFatal) =>
    /\ (pc = "loop" => Elapsed(now) < BudgetTicks)
    /\ (Done /\ result.success = FALSE =>
          /\ lastOutcome = "RetryableFailure"
          /\ BudgetTicks - Elapsed(now) < IntervalTicks)
    /\ (lastOutcome = "Success" =>
          Done /\ result.success = TRUE /\ result.attempts = calls)

C8_Witness ==
  /\ ValidPolicy
  /\ ~sawFatal
  /\ Done
  /\ result.success = TRUE
  /\ result.attempts = 4
  /\ calls = 4
  /\ waits = 3
  /\ backoff = 2

\* ------------------------------------------------------------------ C9
\* C9: every returned result carries exactly one of the reservation id and
\* the error: the id and no error when success is True, the error and no id
\* when success is False.
C9_IdXorError ==
  Done =>
    /\ (result.success = TRUE <=> result.capacityReservationId # Absent)
    /\ (result.success = TRUE <=> result.error = Absent)

C9_Witness ==
  /\ Done
  /\ result.success = FALSE
  /\ result.error = "InsufficientCapacity"
  /\ result.capacityReservationId = Absent
  /\ calls >= 2

\* ----------------------------------------------------------------- C10
\* C10: on every return the reported attempts is the number of client calls
\* made during the run.
C10_AttemptsAreCallsMade == Done => result.attempts = calls

\* ----------------------------------------------------------------- C11
\* the policy breaks the invariant of RetryPolicy: a non-positive duration,
\* a multiplier <= 1 or maxInterval < initialInterval
InvalidPolicy ==
  /\ numeric
  /\ \/ max_duration <= 0
     \/ initial_interval <= 0
     \/ max_interval <= 0
     \/ backoff <= 1
     \/ max_interval < initial_interval

\* C11: with an invalid policy the function rejects the call with a
\* configuration error before the loop starts: it never makes a client call
\* and never waits.
C11_InvalidPolicyRejected ==
  InvalidPolicy =>
    /\ pc \notin {"call", "wait"}
    /\ calls = 0
    /\ waits = 0
    /\ (Done => result.error = "ConfigurationError")

\* ----------------------------------------------------------------- C12
\* C12: no exception ever leaves the function: every run that ends, ends in
\* a returned result.
C12_NeverThrows == pc # "raised"

\* ----------------------------------------------------------------- C13
\* C13: a cancellation signalled during a wait ends the wait: the function
\* returns a distinct cancelled outcome and makes no further client call.
C13_CancelEndsTheCall ==
  cancelled =>
    \/ pc = "wait"
    \/ (Done /\ result.success = FALSE /\ result.error = "Cancelled")

\* ----------------------------------------------------------------- C15
\* C15: the wait that follows a failure lasts the whole interval in effect:
\* the next loop test comes no earlier than currentInterval after the
\* failure; calls and waits alternate, so the waits made are the calls made
\* or one fewer.
C15_WaitsTheWholeInterval ==
  [][/\ (pc = "wait" /\ pc' = "loop" => now' - now >= IntervalTicks)
     /\ waits' \in {calls' - 1, calls'}]_vars

\* ----------------------------------------------------------------- C16
\* C16: on every return the reported totalDuration is the whole seconds
\* elapsed on the clock at that moment, also on the return that follows a
\* failed loop test.
C16_ReportsElapsedSeconds ==
  Done => result.totalDuration = IntSeconds(Elapsed(now))

\* ----------------------------------------------------------------- C17
\* the function returned because the loop test failed: no call followed the
\* latest wait (or the entry) and the budget is used up
ExitedAtLoopTest ==
  /\ Done
  /\ waits = calls
  /\ ~(Elapsed(now) < BudgetTicks)

\* the function returned right after a retryable failure that left less
\* than the interval
ExitedAfterRetryableFailure ==
  /\ Done
  /\ waits = calls - 1
  /\ lastOutcome = "RetryableFailure"
  /\ BudgetTicks - Elapsed(now) < IntervalTicks

\* C17: a failure result carries the "exceeded maximum retry duration"
\* error exactly when the function left at the loop test, and the
\* "insufficient capacity" error exactly when it left right after a
\* retryable failure with remaining < currentInterval.
C17_ErrorNamesTheExit ==
  (Done /\ result.success = FALSE) =>
    /\ (result.error = "ExceededMaxDuration" <=> ExitedAtLoopTest)
    /\ (result.error = "InsufficientCapacity" <=> ExitedAfterRetryableFailure)

\* ----------------------------------------------------------------- C19
\* C19: every client call of a run gets the request the caller supplied:
\* the instance type, platform, zone and tenancy of params, with count 1,
\* "targeted" and "unlimited"; the latest call gets what the first one got.
C19_RequestIsTheCallers ==
  calls >= 1 =>
    /\ sent.InstanceType = params.InstanceType
    /\ sent.InstancePlatform = params.Platform
    /\ sent.AvailabilityZone = params.AvailabilityZone
    /\ sent.Tenancy = params.Tenancy
    /\ sent.InstanceCount = RequestedCount
    /\ sent.InstanceMatchCriteria = "targeted"
    /\ sent.EndDateType = "unlimited"
    /\ sent = firstSent

C19_Witness ==
  /\ calls >= 3
  /\ sent = firstSent
  /\ sent.InstanceType \in InstanceTypes
  /\ sent.InstanceCount = RequestedCount

\* ----------------------------------------------------------------- C14
\* the call of find_matching_logins is over, one way or the other
MatcherOver == mpc \in {"returned", "raised"}

\* the existing logins among the permutations of a name
Hits(name) ==
  {login \in DOMAIN existing_logins :
     /\ ~IndexRaises(name[1], name[2])
     /\ login \in Elements(generate_login_permutations(name[1], name[2]))}

\* the returned dict is the one the contract describes
ResultCorrect ==
  /\ DOMAIN non_matches =
       {login \in DOMAIN existing_logins :
          \A i \in DOMAIN names_list : login \notin Hits(names_list[i])}
  /\ \A login \in DOMAIN non_matches : non_matches[login] = existing_logins[login]
  /\ DOMAIN matches =
       {names_list[i] : i \in {j \in DOMAIN names_list : Hits(names_list[j]) # {}}}
  /\ \A name \in DOMAIN matches :
       /\ Elements(matches[name]) = {existing_logins[login] : login \in Hits(name)}
       /\ Len(matches[name]) = Cardinality(Hits(name))
  /\ matched_logins \cap DOMAIN non_matches = {}
  /\ matched_logins \cup DOMAIN non_matches = DOMAIN existing_logins

\* C14: for every names_list and existing_logins find_matching_logins
\* returns, and what it returns is correct: non_matches holds exactly the
\* logins no name generates, matches maps each name with a hit to the data
\* of exactly its hits, and matched logins and non_matches split
\* existing_logins.
C14_ReturnsTheCorrectSplit ==
  MatcherOver => (mpc = "returned" /\ ResultCorrect)

\* ----------------------------------------------------------------- C20
\* C20: no IndexError leaves generate_login_permutations, whatever names
\* read_names_from_csv produced, names that are empty after stripping
\* included.
C20_CompletesOnEveryName ==
  mpc # "raised"

====
